---- MODULE Spec2Model ----
(***************************************************************************)
(* Model of the Eleventy configuration of the document archive: the page   *)
(* loader, the document assembler (getDocuments), the index builder (the   *)
(* "indices" global data callback) and the normalizers of document         *)
(* numbers, dates and document types.                                      *)
(*                                                                         *)
(* Conventions.  A JavaScript string that the code inspects character by   *)
(* character (document numbers, filenames, page numbers, dates, document  *)
(* types) is a sequence of one-character strings.  null/undefined is NULL, a sequence no string    *)
(* can equal.  A JavaScript value that may be absent and is otherwise an   *)
(* object or a number is <<>> when absent and <<v>> when present.  Entity  *)
(* names, which the code only looks up and compares, are TLA+ strings.     *)
(* Set and Map keep insertion order, so they are sequences without         *)
(* repetition.  A reference to a document object is the position of the    *)
(* document in the corpus array.                                           *)
(***************************************************************************)
EXTENDS Integers, Sequences, FiniteSets, TLC

VARIABLES
    files,            \* the .json entries of ./results in traversal order
    dedupeFile,       \* dedupe.json as found at start-up
    dedupeMappings,   \* let dedupeMappings
    typeDedupeFile,   \* dedupe_types.json as found at start-up
    typeDedupeMap,    \* let typeDedupeMap
    collation,        \* what String.prototype.localeCompare of the runtime does
    cachedDocuments,  \* let cachedDocuments: <<>> is null, <<docs>> the array
    cacheGen,         \* identity of the array object held by cachedDocuments
    scans,            \* number of times readDocuments(resultsDir) has run
    returned,         \* identities of the arrays getDocuments has returned
    indices,          \* last value of the "indices" callback: <<>> or <<obj>>
    calls,            \* number of data callbacks invoked so far
    nInput,           \* argument handed to normalizeDocNum
    nOutput,          \* <<>> before the call, <<result>> after it
    nTwice,           \* <<>>, or <<normalizeDocNum(result)>>
    dInput,           \* a date string with the parts it was written from
    dKey,             \* <<>> before the call, <<normalizeDate(dInput.text)>> after
    dShown,           \* <<>>, or <<[arg, out]>> of a call out = formatDate(arg)
    resultsDir,       \* the entries of ./results as a directory tree
    dirScan           \* <<>>, or <<[pages, errors]>> of readDocuments(resultsDir)

vars == <<files, dedupeFile, dedupeMappings, typeDedupeFile, typeDedupeMap,
          collation, cachedDocuments, cacheGen, scans, returned, indices, calls,
          nInput, nOutput, nTwice, dInput, dKey, dShown, resultsDir, dirScan>>

\* what start-up reads and no callback writes
startVars == <<files, dedupeFile, dedupeMappings, typeDedupeFile, typeDedupeMap,
               collation>>

\* the state of the calls of normalizeDate and formatDate on their own
dateVars == <<dInput, dKey, dShown>>

\* the state of the scan of a directory tree on its own
dirVars == <<resultsDir, dirScan>>

-----------------------------------------------------------------------------
(* Bounds *)

MaxFiles == 3
MaxCalls == 3
MaxLen == 3

-----------------------------------------------------------------------------
(* Strings *)

NULL == <<"null">>

Truthy(s) == s # NULL /\ s # <<>>

UpperChars == <<"A","B","C","D","E","F","G","H","I","J","K","L","M",
                "N","O","P","Q","R","S","T","U","V","W","X","Y","Z">>

LowerChars == <<"a","b","c","d","e","f","g","h","i","j","k","l","m",
                "n","o","p","q","r","s","t","u","v","w","x","y","z">>

DigitChars == <<"0","1","2","3","4","5","6","7","8","9">>

Range(s) == { s[i] : i \in DOMAIN s }

toLowerCase(s) ==
    [i \in DOMAIN s |->
        IF \E k \in DOMAIN UpperChars : UpperChars[k] = s[i]
        THEN LowerChars[CHOOSE k \in DOMAIN UpperChars : UpperChars[k] = s[i]]
        ELSE s[i]]

\* the character class [a-z0-9-]
IsKeyChar(c) == c \in Range(LowerChars) \cup Range(DigitChars) \cup {"-"}

\* ReplaceNonKey with the characters removed instead of replaced
ReplaceNonKey_Remove(s) == SelectSeq(s, IsKeyChar)

\* .replace(/[^a-z0-9-]/g, '-')
ReplaceNonKey(s) == [i \in DOMAIN s |-> IF IsKeyChar(s[i]) THEN s[i] ELSE "-"]

\* .replace(/-+/g, '-')
RECURSIVE CollapseHyphens(_)
CollapseHyphens(s) ==
    IF Len(s) <= 1 THEN s
    ELSE IF s[1] = "-" /\ s[2] = "-" THEN CollapseHyphens(Tail(s))
    ELSE <<s[1]>> \o CollapseHyphens(Tail(s))

\* .replace(/^-+|-+$/g, '')
RECURSIVE TrimLeadingHyphens(_)
TrimLeadingHyphens(s) ==
    IF s # <<>> /\ s[1] = "-" THEN TrimLeadingHyphens(Tail(s)) ELSE s

RECURSIVE TrimTrailingHyphens(_)
TrimTrailingHyphens(s) ==
    IF s # <<>> /\ s[Len(s)] = "-"
    THEN TrimTrailingHyphens(SubSeq(s, 1, Len(s) - 1))
    ELSE s

TrimHyphens(s) == TrimTrailingHyphens(TrimLeadingHyphens(s))

normalizeDocNum(docNum) ==
    IF ~Truthy(docNum) THEN NULL
    ELSE TrimHyphens(CollapseHyphens(ReplaceNonKey(toLowerCase(docNum))))

-----------------------------------------------------------------------------
(* parseInt, as the page sort uses it: parseInt(x) with no radix argument *)

WhiteSpace == {" ", "\t", "\n"}

RECURSIVE SkipWhiteSpace(_)
SkipWhiteSpace(s) ==
    IF s # <<>> /\ s[1] \in WhiteSpace THEN SkipWhiteSpace(Tail(s)) ELSE s

IndexOf(seq, c) == CHOOSE k \in DOMAIN seq : seq[k] = c

\* value of c as a digit of the radix, -1 when it is none
DigitValue(c, radix) ==
    LET l == toLowerCase(<<c>>)[1] IN
    IF c \in Range(DigitChars) THEN IndexOf(DigitChars, c) - 1
    ELSE IF radix = 16 /\ l \in Range(SubSeq(LowerChars, 1, 6))
         THEN IndexOf(LowerChars, l) + 9
         ELSE -1

\* <<>> when s does not start with a digit, else <<value of the longest
\* run of digits s starts with>>
RECURSIVE ParseDigits(_, _, _)
ParseDigits(s, radix, acc) ==
    IF s = <<>> \/ DigitValue(s[1], radix) < 0 THEN acc
    ELSE ParseDigits(Tail(s), radix,
                     <<(IF acc = <<>> THEN 0 ELSE acc[1]) * radix
                        + DigitValue(s[1], radix)>>)

\* <<>> is NaN, <<n>> the number n
parseInt(x) ==
    IF x = NULL THEN <<>>          \* ToString(undefined) has no digit
    ELSE
      LET t      == SkipWhiteSpace(x)
          neg    == t # <<>> /\ t[1] = "-"
          u      == IF t # <<>> /\ t[1] \in {"+", "-"} THEN Tail(t) ELSE t
          hex    == Len(u) >= 2 /\ u[1] = "0" /\ u[2] \in {"x", "X"}
          digits == IF hex THEN ParseDigits(Tail(Tail(u)), 16, <<>>)
                           ELSE ParseDigits(u, 10, <<>>)
      IN  IF digits = <<>> THEN <<>>
          ELSE IF neg THEN <<0 - digits[1]>> ELSE digits

-----------------------------------------------------------------------------
(* Dates: normalizeDate and formatDate *)

IsDigit(c) == c \in Range(DigitChars)

\* \s
IsSpace(c) == c \in WhiteSpace

AllDigits(s) == \A i \in DOMAIN s : IsDigit(s[i])

Digits == Range(DigitChars)

WordChars == Range(LowerChars) \cup Range(UpperChars) \cup Range(DigitChars) \cup {"_"}

\* length of the longest prefix of s whose characters are in class
RECURSIVE Span(_, _)
Span(s, class) ==
    IF s # <<>> /\ s[1] \in class THEN 1 + Span(Tail(s), class) ELSE 0

Drop(s, n) == SubSeq(s, n + 1, Len(s))

\* String.prototype.trim
RECURSIVE TrimEnd(_)
TrimEnd(s) ==
    IF s # <<>> /\ IsSpace(s[Len(s)]) THEN TrimEnd(SubSeq(s, 1, Len(s) - 1)) ELSE s

\* trim that leaves the white space at the end
trim_Start(s) == SkipWhiteSpace(s)

trim(s) == TrimEnd(SkipWhiteSpace(s))

\* s.padStart(2, '0')
padStart2(s) == IF Len(s) < 2 THEN <<"0">> \o s ELSE s

\* the full names of the months table, in lower case; every other key of
\* the table is the first three letters of one of them
MonthNames ==
    << <<"j","a","n","u","a","r","y">>,
       <<"f","e","b","r","u","a","r","y">>,
       <<"m","a","r","c","h">>,
       <<"a","p","r","i","l">>,
       <<"m","a","y">>,
       <<"j","u","n","e">>,
       <<"j","u","l","y">>,
       <<"a","u","g","u","s","t">>,
       <<"s","e","p","t","e","m","b","e","r">>,
       <<"o","c","t","o","b","e","r">>,
       <<"n","o","v","e","m","b","e","r">>,
       <<"d","e","c","e","m","b","e","r">> >>

\* the two-digit value of the months table for a number 1..12
TwoDigits(n) == <<DigitChars[(n \div 10) + 1], DigitChars[(n % 10) + 1]>>

\* MonthLookup without toLowerCase
MonthLookup_CaseSensitive(word) ==
    LET hits == { m \in DOMAIN MonthNames :
                    word = MonthNames[m] \/ word = SubSeq(MonthNames[m], 1, 3) }
    IN  IF hits = {} THEN <<>> ELSE <<TwoDigits(CHOOSE m \in hits : TRUE)>>

\* months[word.toLowerCase()]: <<>> when the table has no such key
MonthLookup(word) ==
    LET w    == toLowerCase(word)
        hits == { m \in DOMAIN MonthNames :
                    w = MonthNames[m] \/ w = SubSeq(MonthNames[m], 1, 3) }
    IN  IF hits = {} THEN <<>> ELSE <<TwoDigits(CHOOSE m \in hits : TRUE)>>

\* /^\d{4}-\d{2}-\d{2}$/
IsIsoDate(s) ==
    /\ Len(s) = 10
    /\ s[5] = "-" /\ s[8] = "-"
    /\ \A i \in {1, 2, 3, 4, 6, 7, 9, 10} : IsDigit(s[i])

\* /^\d{4}$/
IsYear(s) == Len(s) = 4 /\ AllDigits(s)

\* /^(\w+)\s+(\d{1,2}),?\s+(\d{4})$/i: <<>> or <<[word, day, year]>>
MatchMonthDayYear(s) ==
    LET a  == Span(s, WordChars)
        r1 == Drop(s, a)
        b  == Span(r1, WhiteSpace)
        r2 == Drop(r1, b)
        c  == Span(r2, Digits)
        r3 == Drop(r2, c)
        r4 == IF r3 # <<>> /\ r3[1] = "," THEN Tail(r3) ELSE r3
        d  == Span(r4, WhiteSpace)
        r5 == Drop(r4, d)
    IN  IF a >= 1 /\ b >= 1 /\ c \in {1, 2} /\ d >= 1 /\ IsYear(r5)
        THEN <<[word |-> SubSeq(s, 1, a), day |-> SubSeq(r2, 1, c), year |-> r5]>>
        ELSE <<>>

\* /^(\d{1,2})\s+(\w+)\s+(\d{4})$/i: <<>> or <<[word, day, year]>>
MatchDayMonthYear(s) ==
    LET a  == Span(s, Digits)
        r1 == Drop(s, a)
        b  == Span(r1, WhiteSpace)
        r2 == Drop(r1, b)
        c  == Span(r2, WordChars)
        r3 == Drop(r2, c)
        d  == Span(r3, WhiteSpace)
        r4 == Drop(r3, d)
    IN  IF a \in {1, 2} /\ b >= 1 /\ c >= 1 /\ d >= 1 /\ IsYear(r4)
        THEN <<[word |-> SubSeq(r2, 1, c), day |-> SubSeq(s, 1, a), year |-> r4]>>
        ELSE <<>>

\* [\/\.]
IsDateSeparator(c) == c \in {"/", "."}

\* the three fields of digits of s when s is digits, a separator, digits, a
\* separator, digits, and <<>> otherwise
SeparatedFields(s) ==
    LET a  == Span(s, Digits)
        r1 == Drop(s, a)
        r2 == IF r1 # <<>> THEN Tail(r1) ELSE <<>>
        b  == Span(r2, Digits)
        r3 == Drop(r2, b)
        r4 == IF r3 # <<>> THEN Tail(r3) ELSE <<>>
    IN  IF /\ r1 # <<>> /\ IsDateSeparator(r1[1])
           /\ r3 # <<>> /\ IsDateSeparator(r3[1])
           /\ AllDigits(r4)
        THEN <<SubSeq(s, 1, a), SubSeq(r2, 1, b), r4>>
        ELSE <<>>

\* /^(\d{4})[\/\.](\d{1,2})[\/\.](\d{1,2})$/
MatchYearFirst(s) ==
    LET f == SeparatedFields(s) IN
    IF f # <<>> /\ Len(f[1]) = 4 /\ Len(f[2]) \in {1, 2} /\ Len(f[3]) \in {1, 2}
    THEN f ELSE <<>>

\* /^(\d{1,2})[\/\.](\d{1,2})[\/\.](\d{4})$/
MatchYearLast(s) ==
    LET f == SeparatedFields(s) IN
    IF f # <<>> /\ Len(f[1]) \in {1, 2} /\ Len(f[2]) \in {1, 2} /\ Len(f[3]) = 4
    THEN f ELSE <<>>

IsoKey(year, month, day) == year \o <<"-">> \o month \o <<"-">> \o day

normalizeDate(dateStr) ==
    IF ~Truthy(dateStr) THEN NULL
    ELSE
      LET str    == trim(dateStr)
          match1 == MatchMonthDayYear(str)
          match2 == MatchDayMonthYear(str)
          match3 == MatchYearFirst(str)
          match4 == MatchYearLast(str)
      IN  IF IsIsoDate(str) THEN str
          ELSE IF IsYear(str) THEN str \o <<"-","0","0","-","0","0">>
          ELSE IF match1 # <<>> /\ MonthLookup(match1[1].word) # <<>>
               THEN IsoKey(match1[1].year, MonthLookup(match1[1].word)[1],
                           padStart2(match1[1].day))
          ELSE IF match2 # <<>> /\ MonthLookup(match2[1].word) # <<>>
               THEN IsoKey(match2[1].year, MonthLookup(match2[1].word)[1],
                           padStart2(match2[1].day))
          ELSE IF match3 # <<>>
               THEN IsoKey(match3[1], padStart2(match3[2]), padStart2(match3[3]))
          ELSE IF match4 # <<>>
               THEN IsoKey(match4[3], padStart2(match4[1]), padStart2(match4[2]))
          ELSE str

\* normalizedDate.endsWith('-00-00')
EndsWithZeroMonthDay(s) ==
    Len(s) >= 6 /\ SubSeq(s, Len(s) - 5, Len(s)) = <<"-","0","0","-","0","0">>

\* the decimal digits of a number 0..99
Decimal(n) ==
    IF n < 10 THEN <<DigitChars[n + 1]>> ELSE TwoDigits(n)

\* months[month] of formatDate: the name with its first letter in capital
MonthDisplayName(m) ==
    LET name == MonthNames[m] IN
    <<UpperChars[IndexOf(LowerChars, name[1])]>> \o Tail(name)

UnknownDate == <<"U","n","k","n","o","w","n"," ","D","a","t","e">>

formatDate(normalizedDate) ==
    IF ~Truthy(normalizedDate) THEN UnknownDate
    ELSE IF EndsWithZeroMonthDay(normalizedDate)
         THEN SubSeq(normalizedDate, 1, 4)
    ELSE IF /\ IsIsoDate(normalizedDate)
            /\ parseInt(SubSeq(normalizedDate, 6, 7))[1] > 0
            /\ parseInt(SubSeq(normalizedDate, 6, 7))[1] <= 12
         THEN MonthDisplayName(parseInt(SubSeq(normalizedDate, 6, 7))[1])
              \o <<" ">> \o Decimal(parseInt(SubSeq(normalizedDate, 9, 10))[1])
              \o <<",", " ">> \o SubSeq(normalizedDate, 1, 4)
    ELSE normalizedDate

-----------------------------------------------------------------------------
(* Pages.  A file of ./results is                                          *)
(*   [path, filename, parseable, document_metadata, entities]              *)
(* where document_metadata and entities are <<>> when the JSON object has  *)
(* no such field and <<record>> when it has.  A field of document_metadata *)
(* that the JSON leaves out is NULL.  An entity category the JSON leaves   *)
(* out is the empty list: the code adds nothing to the union in both cases.*)

\* page.document_metadata?.document_number
RawDocNum(page) ==
    IF page.document_metadata = <<>> THEN NULL
    ELSE page.document_metadata[1].document_number

\* page.document_metadata?.page_number
RawPageNumber(page) ==
    IF page.document_metadata = <<>> THEN NULL
    ELSE page.document_metadata[1].page_number

\* page.document_metadata?.document_type
RawDocType(page) ==
    IF page.document_metadata = <<>> THEN NULL
    ELSE page.document_metadata[1].document_type

\* page.document_metadata?.date
RawDate(page) ==
    IF page.document_metadata = <<>> THEN NULL
    ELSE page.document_metadata[1].date

\* parseInt(a.document_metadata?.page_number) || 0
PageSortKey(page) ==
    LET n == parseInt(RawPageNumber(page)) IN
    IF n = <<>> THEN 0 ELSE n[1]


-----------------------------------------------------------------------------
(* Insertion-ordered collections *)

\* [...new Set(seq)]: the first occurrence of every value, in order
RECURSIVE Uniq(_)
Uniq(seq) ==
    IF seq = <<>> THEN <<>>
    ELSE LET init == Uniq(SubSeq(seq, 1, Len(seq) - 1))
             x    == seq[Len(seq)]
         IN  IF x \in Range(init) THEN init ELSE Append(init, x)

\* seqs[1] \o seqs[2] \o ...
RECURSIVE Flatten(_)
Flatten(seqs) ==
    IF seqs = <<>> THEN <<>> ELSE Head(seqs) \o Flatten(Tail(seqs))

-----------------------------------------------------------------------------
(* Page loader *)

\* readDocuments(resultsDir): every entry that parses is pushed, in
\* traversal order; an entry that does not parse is reported and skipped
readDocuments(entries) ==
    LET ok(f) == f.parseable
        kept  == SelectSeq(entries, ok)
    IN  [i \in DOMAIN kept |->
            [path              |-> kept[i].path,
             filename          |-> kept[i].filename,
             document_metadata |-> kept[i].document_metadata,
             entities          |-> kept[i].entities]]

-----------------------------------------------------------------------------
(* Document assembler *)

\* GroupKey with the keys made from filenames kept apart from the others
GroupKey_FallbackApart(page) ==
    IF ~Truthy(RawDocNum(page))
    THEN <<"#">> \o page.filename
    ELSE normalizeDocNum(RawDocNum(page))

\* GroupKey with the filename of an unnumbered page taken as written
GroupKey_FilenameAsIs(page) ==
    IF ~Truthy(RawDocNum(page)) THEN page.filename
    ELSE normalizeDocNum(RawDocNum(page))

\* GroupKey with the document number taken as written
GroupKey_Raw(page) ==
    IF ~Truthy(RawDocNum(page)) THEN page.filename ELSE RawDocNum(page)

\* the documentMap key the forEach body files the page under
GroupKey(page) ==
    LET rawDocNum == RawDocNum(page) IN
    IF ~Truthy(rawDocNum)
    THEN LET n == normalizeDocNum(page.filename) IN
         IF Truthy(n) THEN n ELSE page.filename
    ELSE normalizeDocNum(rawDocNum)

\* MapPush without the has() test: every push makes an entry of its own
MapPush_AlwaysNew(map, k, v) == Append(map, [key |-> k, vals |-> <<v>>])

\* MapPush with the list under the key replaced instead of extended
MapPush_LastWins(map, k, v) ==
    IF \E i \in DOMAIN map : map[i].key = k
    THEN [i \in DOMAIN map |->
            IF map[i].key = k THEN [key |-> k, vals |-> <<v>>] ELSE map[i]]
    ELSE Append(map, [key |-> k, vals |-> <<v>>])

\* if (!documentMap.has(k)) documentMap.set(k, []); documentMap.get(k).push(page)
MapPush(map, k, v) ==
    IF \E i \in DOMAIN map : map[i].key = k
    THEN [i \in DOMAIN map |->
            IF map[i].key = k
            THEN [key |-> k, vals |-> Append(map[i].vals, v)]
            ELSE map[i]]
    ELSE Append(map, [key |-> k, vals |-> <<v>>])

\* GroupPages with the pages that have no document number skipped
RECURSIVE GroupPages_SkipUnnumbered(_)
GroupPages_SkipUnnumbered(pages) ==
    IF pages = <<>> THEN <<>>
    ELSE LET page == pages[Len(pages)]
             rest == GroupPages_SkipUnnumbered(SubSeq(pages, 1, Len(pages) - 1))
         IN  IF ~Truthy(RawDocNum(page)) THEN rest
             ELSE MapPush(rest, normalizeDocNum(RawDocNum(page)), page)

\* pages.forEach(page => ...) over the loaded pages
RECURSIVE GroupPages(_)
GroupPages(pages) ==
    IF pages = <<>> THEN <<>>
    ELSE LET page == pages[Len(pages)] IN
         MapPush(GroupPages(SubSeq(pages, 1, Len(pages) - 1)),
                 GroupKey(page), page)

\* the comparator of docPages.sort: negative, zero or positive
ComparePages(a, b) == PageSortKey(a) - PageSortKey(b)

\* InsertPage with p put before the elements it compares equal to
RECURSIVE InsertPage_TiesFirst(_, _)
InsertPage_TiesFirst(sorted, p) ==
    IF sorted = <<>> THEN <<p>>
    ELSE LET last == sorted[Len(sorted)] IN
         IF ComparePages(last, p) >= 0
         THEN Append(InsertPage_TiesFirst(SubSeq(sorted, 1, Len(sorted) - 1), p), last)
         ELSE Append(sorted, p)

\* Array.prototype.sort is stable (ECMAScript 2019): p goes after every
\* element that does not compare greater than it
RECURSIVE InsertPage(_, _)
InsertPage(sorted, p) ==
    IF sorted = <<>> THEN <<p>>
    ELSE LET last == sorted[Len(sorted)] IN
         IF ComparePages(last, p) > 0
         THEN Append(InsertPage(SubSeq(sorted, 1, Len(sorted) - 1), p), last)
         ELSE Append(sorted, p)

\* SortPages with the pages left in load order
SortPages_None(docPages) == docPages

RECURSIVE SortPages(_)
SortPages(docPages) ==
    IF docPages = <<>> THEN <<>>
    ELSE InsertPage(SortPages(SubSeq(docPages, 1, Len(docPages) - 1)),
                    docPages[Len(docPages)])

Categories == {"people", "organizations", "locations"}

\* page.entities[key], or nothing when the page has no entities
PageEntities(page, key) ==
    IF page.entities = <<>> THEN <<>> ELSE page.entities[1][key]

\* allEntities[key] after docPages.forEach: a Set, in insertion order
AllEntities(docPages, key) ==
    Uniq(Flatten([i \in DOMAIN docPages |-> PageEntities(docPages[i], key)]))

\* applyDedupe that returns whatever the mapping holds for the name
applyDedupe_NoFallback(entityType, entityName) ==
    IF entityName = "" THEN entityName
    ELSE IF /\ entityType \in DOMAIN dedupeMappings
            /\ entityName \in DOMAIN dedupeMappings[entityType]
         THEN dedupeMappings[entityType][entityName]
         ELSE entityName

\* dedupeMappings[entityType]?.[entityName] || entityName
applyDedupe(entityType, entityName) ==
    IF entityName = "" THEN entityName
    ELSE IF /\ entityType \in DOMAIN dedupeMappings
            /\ entityName \in DOMAIN dedupeMappings[entityType]
            /\ dedupeMappings[entityType][entityName] # ""
         THEN dedupeMappings[entityType][entityName]
         ELSE entityName

\* DeduplicatedEntities without the Set around the mapped names
DeduplicatedEntities_NoSet(docPages, key) ==
    LET all == AllEntities(docPages, key) IN
    [i \in DOMAIN all |-> applyDedupe(key, all[i])]

\* [...new Set(Array.from(allEntities[key]).map(p => applyDedupe(key, p)))]
DeduplicatedEntities(docPages, key) ==
    LET all == AllEntities(docPages, key) IN
    Uniq([i \in DOMAIN all |-> applyDedupe(key, all[i])])

\* typeDedupeMap[trimmed] || trimmed
CanonicalType(trimmed) ==
    IF trimmed \in DOMAIN typeDedupeMap /\ Truthy(typeDedupeMap[trimmed])
    THEN typeDedupeMap[trimmed]
    ELSE trimmed

normalizeDocType(docType) ==
    IF ~Truthy(docType) THEN NULL
    ELSE trim(toLowerCase(CanonicalType(trim(docType))))

Unknown == <<"U","n","k","n","o","w","n">>

formatDocType(docType) ==
    IF ~Truthy(docType) THEN Unknown
    ELSE CanonicalType(trim(docType))

\* d => { const normalized = normalizeDate(d);
\*        return normalized ? formatDate(normalized) : d; }
DisplayDate(d) ==
    LET normalized == normalizeDate(d) IN
    IF Truthy(normalized) THEN formatDate(normalized) ELSE d

\* [...new Set(Array.from(allEntities.dates).map(d => ...))]
DocumentDates(docPages) ==
    LET all == AllEntities(docPages, "dates") IN
    Uniq([i \in DOMAIN all |-> DisplayDate(all[i])])

\* NormalizedMetadata without the overlay of document_type and date
NormalizedMetadata_Raw(docPages) ==
    LET firstPage == docPages[1] IN
    [document_number |-> RawDocNum(firstPage),
     page_number     |-> RawPageNumber(firstPage),
     document_type   |-> RawDocType(firstPage),
     date            |-> RawDate(firstPage)]

\* normalizedMetadata: the metadata of the first page with document_type
\* and date overlaid; a field the first page does not have is NULL
NormalizedMetadata(docPages) ==
    LET firstPage == docPages[1] IN
    [document_number |-> RawDocNum(firstPage),
     page_number     |-> RawPageNumber(firstPage),
     document_type   |-> IF Truthy(RawDocType(firstPage))
                         THEN formatDocType(RawDocType(firstPage))
                         ELSE NULL,
     date            |-> IF Truthy(RawDate(firstPage))
                         THEN formatDate(normalizeDate(RawDate(firstPage)))
                         ELSE RawDate(firstPage)]

\* RawDocNums without .filter(Boolean)
RawDocNums_Unfiltered(docPages) ==
    Uniq([i \in DOMAIN docPages |-> RawDocNum(docPages[i])])

\* [...new Set(docPages.map(p => p.document_metadata?.document_number)
\*                     .filter(Boolean))]
RawDocNums(docPages) ==
    Uniq(SelectSeq([i \in DOMAIN docPages |-> RawDocNum(docPages[i])], Truthy))

\* the object the map callback returns for one documentMap entry
MakeDocument(normalizedDocNum, pagesOfKey) ==
    LET docPages   == SortPages(pagesOfKey)
        rawDocNums == RawDocNums(docPages)
    IN  [unique_id            |-> normalizedDocNum,
         document_number      |-> IF Len(rawDocNums) = 1 THEN rawDocNums[1]
                                  ELSE normalizedDocNum,
         raw_document_numbers |-> rawDocNums,
         pages                |-> docPages,
         page_count           |-> Len(docPages),
         document_metadata    |-> NormalizedMetadata(docPages),
         entities             |-> [key \in Categories |->
                                     DeduplicatedEntities(docPages, key)]
                                  @@ ("dates" :> DocumentDates(docPages))]

\* the documents array getDocuments builds when the cache is empty
AssembleDocuments(entries) ==
    LET documentMap == GroupPages(readDocuments(entries)) IN
    [i \in DOMAIN documentMap |->
        MakeDocument(documentMap[i].key, documentMap[i].vals)]


-----------------------------------------------------------------------------
(* Index builder *)

\* the (canonicalName, doc) pairs the forEach over documentsData pushes for
\* one category, in the order it pushes them
IndexPushes(docs, key) ==
    Flatten([d \in DOMAIN docs |->
        [j \in DOMAIN docs[d].entities[key] |->
            [name |-> applyDedupe(key, docs[d].entities[key][j]), doc |-> d]]])

\* the Map people / organizations / locations after the forEach
RECURSIVE PushAll(_)
PushAll(pushes) ==
    IF pushes = <<>> THEN <<>>
    ELSE LET last == pushes[Len(pushes)] IN
         MapPush(PushAll(SubSeq(pushes, 1, Len(pushes) - 1)),
                 last.name, last.doc)

\* dedupeDocArray that filters nothing
dedupeDocArray_Keep(docs, refs) == refs

\* docs.filter(doc => first time doc.unique_id is seen)
dedupeDocArray(docs, refs) ==
    LET firstSeen(i) ==
            \A j \in 1..(i - 1) :
                docs[refs[j]].unique_id # docs[refs[i]].unique_id
        RECURSIVE keep(_)
        keep(i) == IF i > Len(refs) THEN <<>>
                   ELSE (IF firstSeen(i) THEN <<refs[i]>> ELSE <<>>)
                        \o keep(i + 1)
    IN  keep(1)

\* .sort((a, b) => b.count - a.count), stable
RECURSIVE InsertByCount(_, _)
InsertByCount(sorted, b) ==
    IF sorted = <<>> THEN <<b>>
    ELSE LET last == sorted[Len(sorted)] IN
         IF b.count - last.count > 0
         THEN Append(InsertByCount(SubSeq(sorted, 1, Len(sorted) - 1), b), last)
         ELSE Append(sorted, b)

\* SortByCount that leaves the buckets in the order of the Map
SortByCount_None(buckets) == buckets

RECURSIVE SortByCount(_)
SortByCount(buckets) ==
    IF buckets = <<>> THEN <<>>
    ELSE InsertByCount(SortByCount(SubSeq(buckets, 1, Len(buckets) - 1)),
                       buckets[Len(buckets)])

\* Array.from(map.entries()).map(([name, docs]) => ({name, docs, count}))
\*      .sort((a, b) => b.count - a.count)
EntityIndex(docs, key) ==
    LET map == PushAll(IndexPushes(docs, key)) IN
    SortByCount([i \in DOMAIN map |->
        [name  |-> map[i].key,
         docs  |-> dedupeDocArray(docs, map[i].vals),
         count |-> Len(dedupeDocArray(docs, map[i].vals))]])

\* the (normalized, doc) pairs the forEach pushes into the Map dates
DatePushes(docs) ==
    LET truthyKey(push) == Truthy(push.name) IN
    SelectSeq(
        Flatten([d \in DOMAIN docs |->
            [j \in DOMAIN docs[d].entities["dates"] |->
                [name |-> normalizeDate(docs[d].entities["dates"][j]), doc |-> d]]]),
        truthyKey)

\* the (normalized, doc) pairs the forEach pushes into the Map documentTypes
TypePushes(docs) ==
    LET pushOf(d) ==
            LET docType == docs[d].document_metadata.document_type IN
            IF Truthy(docType) /\ Truthy(normalizeDocType(docType))
            THEN <<[name |-> normalizeDocType(docType), doc |-> d]>>
            ELSE <<>>
    IN  Flatten([d \in DOMAIN docs |-> pushOf(d)])

\* characters in the order of their UTF-16 code units
CodeUnitOrder ==
    <<"\t", "\n", " ", "#", ",", "-", ".", "/">> \o DigitChars \o UpperChars
    \o <<"_">> \o LowerChars

\* characters in the order of their primary weights in the root collation;
\* a capital letter has the primary weight of its small letter
CollationOrder ==
    <<"\t", "\n", " ", "_", "-", ",", ".", "/", "#">> \o DigitChars \o LowerChars

\* -1, 0 or 1: x against y, character by character in the given order, a
\* proper prefix before the longer string
RECURSIVE CompareInOrder(_, _, _)
CompareInOrder(x, y, order) ==
    IF x = <<>> /\ y = <<>> THEN 0
    ELSE IF x = <<>> THEN -1
    ELSE IF y = <<>> THEN 1
    ELSE IF IndexOf(order, x[1]) < IndexOf(order, y[1]) THEN -1
    ELSE IF IndexOf(order, x[1]) > IndexOf(order, y[1]) THEN 1
    ELSE CompareInOrder(Tail(x), Tail(y), order)

\* x against y by code units
CompareCodeUnits(x, y) == CompareInOrder(x, y, CodeUnitOrder)

\* x against y in the root collation: primary weights first, and between
\* strings that differ in case only, the small letter first at the first
\* difference
CompareCollated(x, y) ==
    LET primary == CompareInOrder(toLowerCase(x), toLowerCase(y), CollationOrder)
        diff    == { i \in DOMAIN x : x[i] # y[i] }
        first   == CHOOSE i \in diff : \A j \in diff : i <= j
    IN  IF primary # 0 THEN primary
        ELSE IF diff = {} THEN 0
        ELSE IF x[first] \in Range(LowerChars) THEN -1 ELSE 1

\* x.localeCompare(y)
localeCompare(x, y) ==
    IF collation = "icu" THEN CompareCollated(x, y) ELSE CompareCodeUnits(x, y)

\* InsertByDate that puts the later dates last
RECURSIVE InsertByDate_Ascending(_, _)
InsertByDate_Ascending(sorted, b) ==
    IF sorted = <<>> THEN <<b>>
    ELSE LET last == sorted[Len(sorted)] IN
         IF localeCompare(last.normalizedDate, b.normalizedDate) > 0
         THEN Append(InsertByDate_Ascending(SubSeq(sorted, 1, Len(sorted) - 1), b),
                     last)
         ELSE Append(sorted, b)

\* .sort((a, b) => b.normalizedDate.localeCompare(a.normalizedDate)), stable
RECURSIVE InsertByDate(_, _)
InsertByDate(sorted, b) ==
    IF sorted = <<>> THEN <<b>>
    ELSE LET last == sorted[Len(sorted)] IN
         IF localeCompare(b.normalizedDate, last.normalizedDate) > 0
         THEN Append(InsertByDate(SubSeq(sorted, 1, Len(sorted) - 1), b), last)
         ELSE Append(sorted, b)

RECURSIVE SortByDate(_)
SortByDate(buckets) ==
    IF buckets = <<>> THEN <<>>
    ELSE InsertByDate(SortByDate(SubSeq(buckets, 1, Len(buckets) - 1)),
                      buckets[Len(buckets)])

\* Array.from(dates.entries()).map(([normalizedDate, docs]) => ({...}))
\*      .sort((a, b) => b.normalizedDate.localeCompare(a.normalizedDate))
DateIndex(docs) ==
    LET map == PushAll(DatePushes(docs)) IN
    SortByDate([i \in DOMAIN map |->
        [name           |-> formatDate(map[i].key),
         normalizedDate |-> map[i].key,
         docs           |-> dedupeDocArray(docs, map[i].vals),
         count          |-> Len(dedupeDocArray(docs, map[i].vals))]])

\* Array.from(documentTypes.entries()).map(([normalizedType, docs]) => ({...}))
\*      .sort((a, b) => b.count - a.count)
TypeIndex(docs) ==
    LET map == PushAll(TypePushes(docs)) IN
    SortByCount([i \in DOMAIN map |->
        [name  |-> formatDocType(map[i].key),
         docs  |-> dedupeDocArray(docs, map[i].vals),
         count |-> Len(dedupeDocArray(docs, map[i].vals))]])

\* the object the "indices" callback returns
BuildIndices(docs) ==
    [key \in Categories |-> EntityIndex(docs, key)]
    @@ ("dates" :> DateIndex(docs))
    @@ ("documentTypes" :> TypeIndex(docs))

-----------------------------------------------------------------------------
(* Start-up: dedupe.json *)

NoMapping == [n \in {} |-> ""]

NoTypeMapping == [t \in {} |-> <<>>]

DefaultDedupeMappings == [key \in Categories |-> NoMapping]

\* let dedupeMappings = {...}; if (fs.existsSync(dedupeFile)) try {...}
LoadDedupeMappings(file) ==
    IF file.state = "ok" THEN file.content ELSE DefaultDedupeMappings

\* let typeDedupeMap = {}; if (fs.existsSync(typeDedupeFile)) try {
\*   typeDedupeMap = data.mappings || {} }
LoadTypeDedupeMap(file) ==
    IF file.state = "ok" /\ file.mappings # <<>> THEN file.mappings[1]
    ELSE NoTypeMapping

-----------------------------------------------------------------------------
(* Data callbacks *)

\* CacheHit that takes an empty array for no cache
CacheHit_NonEmpty == cachedDocuments # <<>> /\ cachedDocuments[1] # <<>>

\* if (cachedDocuments)
CacheHit == cachedDocuments # <<>>

\* getDocuments(): the cached array, or a scan and a new array
GetDocuments ==
    IF CacheHit
    THEN /\ returned' = returned \cup {cacheGen}
         /\ UNCHANGED <<cachedDocuments, cacheGen, scans>>
    ELSE /\ scans' = scans + 1
         /\ cacheGen' = scans + 1
         /\ cachedDocuments' = <<AssembleDocuments(files)>>
         /\ returned' = returned \cup {cacheGen'}

\* eleventyConfig.addGlobalData("documents", getDocuments)
DocumentsData ==
    /\ calls < MaxCalls
    /\ calls' = calls + 1
    /\ GetDocuments
    /\ UNCHANGED <<startVars, indices, nInput, nOutput, nTwice, dateVars, dirVars>>

\* eleventyConfig.addGlobalData("indices", () => {...})
IndicesData ==
    /\ calls < MaxCalls
    /\ calls' = calls + 1
    /\ GetDocuments
    /\ indices' = <<BuildIndices(cachedDocuments'[1])>>
    /\ UNCHANGED <<startVars, nInput, nOutput, nTwice, dateVars, dirVars>>

Next == DocumentsData \/ IndicesData


-----------------------------------------------------------------------------
(* Inputs: the files of ./results and dedupe.json *)

\* a document_metadata object; a field the file leaves out is NULL
TypedMetadata(docNum, pageNum, docType, date) ==
    <<[document_number |-> docNum, page_number |-> pageNum,
       document_type |-> docType, date |-> date]>>

Metadata(docNum, pageNum) == TypedMetadata(docNum, pageNum, NULL, NULL)

\* an entities object; a list the file leaves out is empty
DatedEntities(people, organizations, locations, dates) ==
    <<[people |-> people, organizations |-> organizations,
       locations |-> locations, dates |-> dates]>>

Entities(people, organizations, locations) ==
    DatedEntities(people, organizations, locations, <<>>)

File(filename, parseable, metadata, entities) ==
    [filename |-> filename, parseable |-> parseable,
     document_metadata |-> metadata, entities |-> entities]

D1 == <<"d","1">>

DOC_12_A == <<"D","O","C","-","1","2"," ","A">>

doc12a == <<"d","o","c","1","2","a">>

doc_12_a == <<"d","o","c"," ","1","2"," ","a">>

D2 == <<"d","2">>

\* files whose document numbers and filenames exercise the grouping
GroupingFiles ==
    { File(<<"a","1">>, TRUE,
           Metadata(DOC_12_A, NULL), <<>>),
      File(<<"a","2">>, TRUE,
           Metadata(doc12a, NULL), <<>>),
      File(<<"a","3">>, TRUE,
           Metadata(doc_12_a, NULL), <<>>),
      File(<<"s","c","a","n","_","0","4","2">>, TRUE, <<>>, <<>>),
      File(doc12a, TRUE, Metadata(<<>>, NULL), <<>>),
      File(<<"a","6">>, TRUE, Metadata(<<"-","-","-">>, NULL), <<>>),
      File(<<"_","_">>, TRUE, Metadata(NULL, NULL), <<>>),
      File(<<"a","8">>, FALSE, <<>>, <<>>) }

\* files of one document whose page numbers exercise the page order
PageNumbers ==
    { NULL, <<"a","b","c">>, <<"0">>, <<"1">>, <<"2">>, <<"1","0">>,
      <<"-","1">>, <<" ","2">> }

OrderingFiles ==
    { File(<<"p">>, TRUE, Metadata(D1, n), <<>>) : n \in PageNumbers }
    \cup { File(D1, TRUE, <<>>, <<>>) }

\* files of two documents whose entity lists exercise the canonicalizer
EntityFiles ==
    { File(<<"e">>, TRUE, Metadata(D1, <<"1">>),
           Entities(<<"J. Epstein", "Jeffrey Epstein">>, <<>>, <<>>)),
      File(<<"e">>, TRUE, Metadata(D1, <<"2">>),
           Entities(<<"A">>, <<"A", "B">>, <<>>)),
      File(<<"e">>, TRUE, Metadata(D2, <<"1">>),
           Entities(<<"C", "A">>, <<>>, <<"B", "B">>)),
      File(<<"e">>, TRUE, Metadata(D1, NULL), <<>>),
      File(<<"e">>, TRUE, Metadata(D2, NULL),
           Entities(<<"Jeffrey Epstein">>, <<>>, <<"A">>)) }

\* what start-up can find at dedupe.json
DedupeFiles ==
    { [state |-> "missing", content |-> DefaultDedupeMappings],
      [state |-> "unparseable", content |-> DefaultDedupeMappings],
      [state |-> "ok",
       content |-> [people |-> ("J. Epstein" :> "Jeffrey Epstein"),
                    organizations |-> NoMapping,
                    locations |-> NoMapping]],
      [state |-> "ok",
       content |-> [people |-> ("A" :> "B" @@ "B" :> "C"),
                    organizations |-> ("A" :> "B"),
                    locations |-> ("B" :> "")]],
      [state |-> "ok",
       content |-> [people |-> ("C" :> "A")]] }

Memo == <<"M","e","m","o">>

memo == <<"m","e","m","o">>

Memorandum == <<"M","e","m","o","r","a","n","d","u","m">>

Letter == <<"L","e","t","t","e","r">>

\* what start-up can find at dedupe_types.json
TypeDedupeFiles ==
    { [state |-> "missing", mappings |-> <<>>],
      [state |-> "unparseable", mappings |-> <<>>],
      [state |-> "ok", mappings |-> <<>>],
      [state |-> "ok", mappings |-> <<(Memo :> Memorandum @@ memo :> Memorandum)>>],
      [state |-> "ok", mappings |-> <<(Memo :> Memorandum @@ Memorandum :> Letter)>>] }

NoTypeDedupeFile == { f \in TypeDedupeFiles : f.state = "missing" }

\* the date of a record that has none
AbsentDate ==
    [form |-> "absent", text |-> NULL, core |-> NULL,
     year |-> <<>>, month |-> 0, day |-> <<>>, day2 |-> <<>>]

\* the directory listings of at most MaxFiles entries drawn from pool; the
\* path of an entry is its position in the traversal
Listings(pool) ==
    UNION { { [i \in 1..n |-> [path |-> i] @@ c[i]] : c \in [1..n -> pool] }
            : n \in 0..MaxFiles }

\* no call of normalizeDate or formatDate on its own
NoDateCall ==
    /\ dInput = AbsentDate
    /\ dKey = <<>>
    /\ dShown = <<>>

\* no scan of a directory tree on its own
NoDirScan ==
    /\ resultsDir = <<>>
    /\ dirScan = <<>>

InitBuild(pool, dedupes, typeDedupes, collations) ==
    /\ files \in Listings(pool)
    /\ dedupeFile \in dedupes
    /\ dedupeMappings = LoadDedupeMappings(dedupeFile)
    /\ typeDedupeFile \in typeDedupes
    /\ typeDedupeMap = LoadTypeDedupeMap(typeDedupeFile)
    /\ collation \in collations
    /\ cachedDocuments = <<>>
    /\ cacheGen = 0
    /\ scans = 0
    /\ returned = {}
    /\ indices = <<>>
    /\ calls = 0
    /\ nInput = NULL
    /\ nOutput = <<>>
    /\ nTwice = <<>>
    /\ NoDateCall
    /\ NoDirScan

InitWith(pool, dedupes) == InitBuild(pool, dedupes, NoTypeDedupeFile, {"icu"})

NoDedupeFile == { f \in DedupeFiles : f.state = "missing" }

InitGrouping == InitWith(GroupingFiles, NoDedupeFile)

InitOrdering == InitWith(OrderingFiles, NoDedupeFile)

InitEntities == InitWith(EntityFiles, DedupeFiles)

Init == InitGrouping \/ InitOrdering \/ InitEntities

Spec == Init /\ [][Next]_vars

SpecGrouping == InitGrouping /\ [][Next]_vars

SpecOrdering == InitOrdering /\ [][Next]_vars

SpecEntities == InitEntities /\ [][Next]_vars


-----------------------------------------------------------------------------
(* normalizeDocNum on its own: every string of at most MaxLen characters   *)
(* of NormChars, and the absent value                                      *)

NormChars == {"A", "a", "1", "-", " ", "#"}

NormInputs ==
    {NULL} \cup UNION { [1..n -> NormChars] : n \in 0..MaxLen }

InitNorm ==
    /\ nInput \in NormInputs
    /\ nOutput = <<>>
    /\ nTwice = <<>>
    /\ files = <<>>
    /\ dedupeFile \in NoDedupeFile
    /\ dedupeMappings = LoadDedupeMappings(dedupeFile)
    /\ typeDedupeFile \in NoTypeDedupeFile
    /\ typeDedupeMap = LoadTypeDedupeMap(typeDedupeFile)
    /\ collation = "icu"
    /\ NoDateCall
    /\ NoDirScan
    /\ cachedDocuments = <<>>
    /\ cacheGen = 0
    /\ scans = 0
    /\ returned = {}
    /\ indices = <<>>
    /\ calls = 0

\* normalizeDocNum(x)
Normalize ==
    /\ nOutput = <<>>
    /\ nOutput' = <<normalizeDocNum(nInput)>>
    /\ UNCHANGED <<startVars, cachedDocuments, cacheGen, scans, returned,
                   indices, calls, nInput, nTwice, dateVars, dirVars>>

\* normalizeDocNum(normalizeDocNum(x))
NormalizeAgain ==
    /\ nOutput # <<>>
    /\ nTwice = <<>>
    /\ nTwice' = <<normalizeDocNum(nOutput[1])>>
    /\ UNCHANGED <<startVars, cachedDocuments, cacheGen, scans, returned,
                   indices, calls, nInput, nOutput, dateVars, dirVars>>

NextNorm == Normalize \/ NormalizeAgain

SpecNorm == InitNorm /\ [][NextNorm]_vars

-----------------------------------------------------------------------------
(* normalizeDate and formatDate on their own: date strings written in each *)
(* of the formats, with and without white space around them, strings in    *)
(* no format, the empty string and the absent value                        *)

Years == { <<"2","0","1","0">>, <<"2","0","0","5">> }

\* a day of the month as written and with two digits
Days ==
    { [raw |-> <<"3">>, two |-> <<"0","3">>],
      [raw |-> <<"0","4">>, two |-> <<"0","4">>],
      [raw |-> <<"1","5">>, two |-> <<"1","5">>] }

toUpperCase(str) ==
    [i \in DOMAIN str |->
        IF str[i] \in Range(LowerChars)
        THEN UpperChars[IndexOf(LowerChars, str[i])] ELSE str[i]]

\* the ways month m is written in words
MonthWords(m) ==
    { MonthDisplayName(m), SubSeq(MonthDisplayName(m), 1, 3),
      MonthNames[m], toUpperCase(SubSeq(MonthNames[m], 1, 3)) }

\* the ways month m is written in digits
MonthDigits(m) == { Decimal(m), TwoDigits(m) }

Pads == { <<>>, <<" ">> }

DateInput(form, core, year, month, day) ==
    { [form |-> form, text |-> pad \o core \o pad, core |-> core,
       year |-> year, month |-> month, day |-> day.raw, day2 |-> day.two]
      : pad \in Pads }

NoDay == [raw |-> <<>>, two |-> <<>>]

IsoInputs ==
    UNION { DateInput("iso", y \o <<"-">> \o TwoDigits(m) \o <<"-">> \o d.two, y, m, d)
            : y \in Years, m \in 0..13, d \in Days }

YearInputs == UNION { DateInput("year", y, y, 0, NoDay) : y \in Years }

MonthDayYearInputs ==
    UNION { UNION { DateInput("mdy", w \o <<" ">> \o d.raw \o c \o <<" ">> \o y, y, m, d)
                    : y \in Years, w \in MonthWords(m), d \in Days,
                      c \in { <<>>, <<",">> } }
            : m \in 1..12 }

DayMonthYearInputs ==
    UNION { UNION { DateInput("dmy", d.raw \o <<" ">> \o w \o <<" ", " ">> \o y, y, m, d)
                    : y \in Years, w \in MonthWords(m), d \in Days }
            : m \in 1..12 }

DateSeparators == { <<"/">>, <<".">> }

YearFirstInputs ==
    UNION { UNION { DateInput("ymd", y \o sep \o md \o sep \o d.raw, y, m, d)
                    : y \in Years, md \in MonthDigits(m), d \in Days,
                      sep \in DateSeparators }
            : m \in 1..12 }

\* the first field is taken for the month whatever its value
YearLastInputs ==
    UNION { UNION { DateInput("us", md \o sep \o d.raw \o sep \o y, y, m, d)
                    : y \in Years, md \in MonthDigits(m), d \in Days,
                      sep \in DateSeparators }
            : m \in (1..12) \cup {15} }

\* strings in none of the formats
OtherDates ==
    { <<>>,
      <<"S","e","p","t"," ","5",","," ","2","0","0","5">>,
      <<"c","i","r","c","a"," ","1","9","9","0">>,
      <<"S","p","r","i","n","g"," ","2","0","0","5">>,
      <<"u","n","k","n","o","w","n">>,
      <<"1","2","3","4","5","-","0","0","-","0","0">>,
      <<"1","9","X","X","-","0","0","-","0","0">>,
      <<"2","0","0","5","-","1","-","2">>,
      <<"1","5","/","0","2","/","0","5">>,
      <<"1","2"," ","5"," ","2","0","0","5">> }

OtherInputs ==
    UNION { DateInput("other", o, <<>>, 0, NoDay) : o \in OtherDates }
    \ { r \in DateInput("other", <<>>, <<>>, 0, NoDay) : r.text = <<>> }

EmptyDate ==
    [form |-> "empty", text |-> <<>>, core |-> <<>>,
     year |-> <<>>, month |-> 0, day |-> <<>>, day2 |-> <<>>]

DateInputs ==
    IsoInputs \cup YearInputs \cup MonthDayYearInputs \cup DayMonthYearInputs
    \cup YearFirstInputs \cup YearLastInputs \cup OtherInputs
    \cup {EmptyDate, AbsentDate}

InitDates ==
    /\ dInput \in DateInputs
    /\ dKey = <<>>
    /\ dShown = <<>>
    /\ files = <<>>
    /\ dedupeFile \in NoDedupeFile
    /\ dedupeMappings = LoadDedupeMappings(dedupeFile)
    /\ typeDedupeFile \in NoTypeDedupeFile
    /\ typeDedupeMap = LoadTypeDedupeMap(typeDedupeFile)
    /\ collation = "icu"
    /\ cachedDocuments = <<>>
    /\ cacheGen = 0
    /\ scans = 0
    /\ returned = {}
    /\ indices = <<>>
    /\ calls = 0
    /\ nInput = NULL
    /\ nOutput = <<>>
    /\ nTwice = <<>>
    /\ NoDirScan

\* the variables the calls of normalizeDate and formatDate leave alone
notDateVars == <<startVars, cachedDocuments, cacheGen, scans, returned, indices,
                 calls, nInput, nOutput, nTwice, dirVars>>

\* normalizeDate(d)
NormalizeDate ==
    /\ dKey = <<>>
    /\ dKey' = <<normalizeDate(dInput.text)>>
    /\ UNCHANGED <<notDateVars, dInput, dShown>>

\* formatDate(normalizeDate(d))
FormatKey ==
    /\ dKey # <<>>
    /\ dShown = <<>>
    /\ dShown' = <<[arg |-> dKey[1], out |-> formatDate(dKey[1])]>>
    /\ UNCHANGED <<notDateVars, dInput, dKey>>

\* formatDate(d)
FormatInput ==
    /\ dKey = <<>>
    /\ dShown = <<>>
    /\ dShown' = <<[arg |-> dInput.text, out |-> formatDate(dInput.text)]>>
    /\ UNCHANGED <<notDateVars, dInput, dKey>>

NextDates == NormalizeDate \/ FormatKey \/ FormatInput

SpecDates == InitDates /\ [][NextDates]_vars

-----------------------------------------------------------------------------
(* Inputs of the date and document type indices                            *)

\* the strings of the spec's scenarios of dates
Feb_3_2010 == <<"F","e","b"," ","3",","," ","2","0","1","0">>

Key_2010_02_03 == <<"2","0","1","0","-","0","2","-","0","3">>

February_3_2010 ==
    <<"F","e","b","r","u","a","r","y"," ","3",","," ","2","0","1","0">>

US_03_04_2005 == <<"0","3","/","0","4","/","2","0","0","5">>

Key_2005_03_04 == <<"2","0","0","5","-","0","3","-","0","4">>

Key_2005_00_00 == <<"2","0","0","5","-","0","0","-","0","0">>

Key_2005_02_15 == <<"2","0","0","5","-","0","2","-","1","5">>

February_15_2005 ==
    <<"F","e","b","r","u","a","r","y"," ","1","5",","," ","2","0","0","5">>

D3 == <<"d","3">>

ISO_2024_05_01 == <<"2","0","2","4","-","0","5","-","0","1">>

ISO_2023_11_02 == <<"2","0","2","3","-","1","1","-","0","2">>

ISO_2005_01_01 == <<"2","0","0","5","-","0","1","-","0","1">>

Year_2005 == <<"2","0","0","5">>

Year_1234 == <<"1","2","3","4">>

Circa_1990 == <<"c","i","r","c","a"," ","1","9","9","0">>

Spring_2005 == <<"S","p","r","i","n","g"," ","2","0","0","5">>

Text_12345_00_00 == <<"1","2","3","4","5","-","0","0","-","0","0">>

Blank == <<" ">>

Jan_00_00 == <<"J","a","n"," ","-","0","0","-","0","0">>

\* files of three documents whose dates and document types exercise the
\* date index and the document type index
IndexFiles ==
    { File(<<"x">>, TRUE, TypedMetadata(D1, <<"2">>, Memo, Feb_3_2010),
           DatedEntities(<<"A">>, <<>>, <<>>, <<ISO_2024_05_01, Year_2005>>)),
      File(<<"x">>, TRUE, TypedMetadata(D2, NULL, memo, NULL),
           DatedEntities(<<"B">>, <<>>, <<>>,
                         <<ISO_2023_11_02, ISO_2005_01_01, Feb_3_2010>>)),
      File(<<"x">>, TRUE, TypedMetadata(D3, NULL, <<" ">> \o Letter \o <<" ">>, Blank),
           DatedEntities(<<"B">>, <<>>, <<>>,
                         <<Circa_1990, Spring_2005, Key_2010_02_03>>)),
      File(<<"x">>, TRUE, TypedMetadata(D1, <<"1">>, <<>>, Year_2005),
           DatedEntities(<<>>, <<>>, <<>>,
                         <<Text_12345_00_00, Year_1234, Blank, Jan_00_00>>)),
      File(<<"x">>, TRUE, TypedMetadata(D2, NULL, Letter, ISO_2005_01_01),
           DatedEntities(<<"B">>, <<>>, <<>>, <<ISO_2024_05_01>>)) }

Collations == {"icu", "codeunit"}

\* every dedupe_types.json under the collation of a runtime with ICU, and
\* the other collation without dedupe_types.json: the document type index
\* does not read the collation, nor the date index the type mapping
InitIndex ==
    \/ InitBuild(IndexFiles, NoDedupeFile, TypeDedupeFiles, {"icu"})
    \/ InitBuild(IndexFiles, NoDedupeFile, NoTypeDedupeFile, Collations \ {"icu"})

SpecIndex == InitIndex /\ [][Next]_vars

-----------------------------------------------------------------------------
(* The scan of ./results as a directory tree.  An entry of a directory is  *)
(*   [name, isDirectory, entries, content]                                 *)
(* with entries the entries of a directory (<<>> for a file) and content   *)
(* what readFileSync and JSON.parse make of a file: parses is FALSE when   *)
(* JSON.parse throws; path and document_metadata are the properties of     *)
(* that name of the parsed value, <<>> when it has none.  A path is the    *)
(* string path.join builds, names separated by "/".                        *)

DotJson == <<".","j","s","o","n">>

\* includes(s, suffix): suffix occurs somewhere in s
endsWith_Anywhere(s, suffix) ==
    \E i \in 1..(Len(s) - Len(suffix) + 1) :
        SubSeq(s, i, i + Len(suffix) - 1) = suffix

\* s.endsWith(suffix)
endsWith(s, suffix) ==
    /\ Len(s) >= Len(suffix)
    /\ SubSeq(s, Len(s) - Len(suffix) + 1, Len(s)) = suffix

\* s.replace(pattern, ''): the first occurrence of pattern is removed
replaceFirst(s, pattern) ==
    LET at == { i \in 1..(Len(s) - Len(pattern) + 1) :
                    SubSeq(s, i, i + Len(pattern) - 1) = pattern }
    IN  IF at = {} THEN s
        ELSE LET i == CHOOSE i \in at : \A j \in at : i <= j
             IN  SubSeq(s, 1, i - 1) \o SubSeq(s, i + Len(pattern), Len(s))

\* path.join(dir, name); an empty dir contributes nothing
pathJoin(dir, name) == IF dir = <<>> THEN name ELSE dir \o <<"/">> \o name

Root == <<"r","o","o","t">>

\* { path: relPath, filename: entry.name.replace('.json', ''),
\*   folder: relativePath || 'root', ...content }
LoadedPage(entry, relativePath) ==
    [path              |-> IF entry.content.path # <<>>
                           THEN entry.content.path[1]
                           ELSE pathJoin(relativePath, entry.name),
     filename          |-> replaceFirst(entry.name, DotJson),
     folder            |-> IF relativePath # <<>> THEN relativePath ELSE Root,
     document_metadata |-> entry.content.document_metadata]

\* readDocuments(dir, relativePath) over the entries of dir, with scan the
\* pages pushed and the errors reported so far
RECURSIVE readDocumentsDir(_, _, _, _)
readDocumentsDir(entries, dir, relativePath, scan) ==
    IF entries = <<>> THEN scan
    ELSE LET entry    == Head(entries)
             fullPath == pathJoin(dir, entry.name)
             relPath  == pathJoin(relativePath, entry.name)
             after    ==
                 IF entry.isDirectory
                 THEN readDocumentsDir(entry.entries, fullPath, relPath, scan)
                 ELSE IF endsWith(entry.name, DotJson)
                 THEN IF entry.content.parses
                      THEN [scan EXCEPT !.pages =
                                Append(@, LoadedPage(entry, relativePath))]
                      ELSE [scan EXCEPT !.errors = Append(@, fullPath)]
                 ELSE scan
         IN  readDocumentsDir(Tail(entries), dir, relativePath, after)

\* path.join(__dirname, './results')
ResultsPath == <<".","/","r","e","s","u","l","t","s">>

\* const pages = []; readDocuments(resultsDir)
ReadResultsDir ==
    /\ dirScan = <<>>
    /\ dirScan' = <<readDocumentsDir(resultsDir, ResultsPath, <<>>,
                                     [pages |-> <<>>, errors |-> <<>>])>>
    /\ UNCHANGED <<startVars, cachedDocuments, cacheGen, scans, returned,
                   indices, calls, nInput, nOutput, nTwice, dateVars, resultsDir>>

(* Directory trees: every tree of at most MaxFiles entries in all, built   *)
(* from the files and the directory names below, the names in a directory  *)
(* distinct, in every order readdirSync may list them.                     *)

Unparseable == [parses |-> FALSE, path |-> <<>>, document_metadata |-> <<>>]

PageObject == [parses |-> TRUE, path |-> <<>>, document_metadata |-> Metadata(D1, NULL)]

\* the file holds null, a number or {}: a value without properties
JsonNull == [parses |-> TRUE, path |-> <<>>, document_metadata |-> <<>>]

\* the file holds an object with a property path
ObjectWithPath == [parses |-> TRUE, path |-> <<<<"p">>>>, document_metadata |-> <<>>]

NoContent == [parses |-> FALSE, path |-> <<>>, document_metadata |-> <<>>]

FileEntry(name, content) ==
    [name |-> name, isDirectory |-> FALSE, entries |-> <<>>, content |-> content]

DirEntry(name, entries) ==
    [name |-> name, isDirectory |-> TRUE, entries |-> entries, content |-> NoContent]

a_json == <<"a",".","j","s","o","n">>

b_json == <<"b",".","j","s","o","n">>

c_json_json == <<"c",".","j","s","o","n",".","j","s","o","n">>

a_json_bak == <<"a",".","j","s","o","n",".","b","a","k">>

sub == <<"s","u","b">>

d_json == <<"d",".","j","s","o","n">>

FileEntries ==
    { FileEntry(a_json, PageObject), FileEntry(a_json, Unparseable),
      FileEntry(b_json, Unparseable), FileEntry(b_json, JsonNull),
      FileEntry(c_json_json, ObjectWithPath), FileEntry(a_json_bak, PageObject) }

DirNames == { sub, d_json }

\* the number of entries of a tree, at every depth
RECURSIVE TreeSize(_)
TreeSize(entries) ==
    IF entries = <<>> THEN 0
    ELSE 1 + TreeSize(Head(entries).entries) + TreeSize(Tail(entries))

\* the trees of at most n entries
RECURSIVE Trees(_)
Trees(n) ==
    IF n = 0 THEN { <<>> }
    ELSE LET firsts == FileEntries \cup
                       { DirEntry(name, below) : name \in DirNames, below \in Trees(n - 1) }
         IN  { <<>> } \cup
             UNION { { <<first>> \o rest :
                          rest \in { r \in Trees(n - 1 - TreeSize(first.entries)) :
                                        \A i \in DOMAIN r : r[i].name # first.name } }
                     : first \in firsts }

InitDir ==
    /\ resultsDir \in Trees(MaxFiles)
    /\ dirScan = <<>>
    /\ files = <<>>
    /\ dedupeFile \in NoDedupeFile
    /\ dedupeMappings = LoadDedupeMappings(dedupeFile)
    /\ typeDedupeFile \in NoTypeDedupeFile
    /\ typeDedupeMap = LoadTypeDedupeMap(typeDedupeFile)
    /\ collation = "icu"
    /\ cachedDocuments = <<>>
    /\ cacheGen = 0
    /\ scans = 0
    /\ returned = {}
    /\ indices = <<>>
    /\ calls = 0
    /\ nInput = NULL
    /\ nOutput = <<>>
    /\ nTwice = <<>>
    /\ NoDateCall

NextDir == ReadResultsDir

SpecDir == InitDir /\ [][NextDir]_vars

(* The files of a tree, found by their places: a place is the sequence of  *)
(* positions that leads from ./results to an entry.                        *)

RECURSIVE Places(_)
Places(entries) ==
    UNION { { <<i>> } \cup
            { <<i>> \o below : below \in Places(entries[i].entries) }
            : i \in DOMAIN entries }

RECURSIVE EntryAt(_, _)
EntryAt(entries, place) ==
    IF Len(place) = 1 THEN entries[place[1]]
    ELSE EntryAt(entries[place[1]].entries, Tail(place))

\* the names from ./results down to the entry at place, joined by "/"
RECURSIVE PathOf(_, _)
PathOf(entries, place) ==
    IF Len(place) = 1 THEN entries[place[1]].name
    ELSE entries[place[1]].name \o <<"/">>
            \o PathOf(entries[place[1]].entries, Tail(place))

\* the last five characters of the name are ".json"
NamedJson(name) ==
    /\ Len(name) >= 5
    /\ \A i \in 1..5 : name[Len(name) - 5 + i] = DotJson[i]

\* the places of the .json files of ./results
JsonFiles ==
    { place \in Places(resultsDir) :
         LET entry == EntryAt(resultsDir, place) IN
         ~entry.isDirectory /\ NamedJson(entry.name) }

ParseableFiles ==
    { place \in JsonFiles : EntryAt(resultsDir, place).content.parses }

UnparseableFiles == JsonFiles \ ParseableFiles

\* the folder of the entry at place: the path of its directory, or root
FolderOf(place) ==
    IF Len(place) = 1 THEN Root
    ELSE PathOf(resultsDir, SubSeq(place, 1, Len(place) - 1))

\* page is what the scan loads from the file at place
LoadedFrom(page, place) ==
    LET entry == EntryAt(resultsDir, place) IN
    /\ page.folder = FolderOf(place)
    /\ page.filename \o DotJson \in { entry.name, entry.name \o DotJson }
    /\ page.document_metadata = entry.content.document_metadata
    /\ entry.content.path = <<>> => page.path = PathOf(resultsDir, place)
    /\ entry.content.path # <<>> => page.path = entry.content.path[1]

-----------------------------------------------------------------------------
(* Vocabulary of the properties *)

Assembled == cachedDocuments # <<>>

Docs == cachedDocuments[1]

Indexed == indices # <<>>

\* the files the loader could parse
LoadedFiles == { i \in DOMAIN files : files[i].parseable }

\* the places <<document, position>> of the corpus that hold the page of path
PlacesOf(path) ==
    { pl \in UNION { {<<d, k>> : k \in DOMAIN Docs[d].pages} : d \in DOMAIN Docs } :
        Docs[pl[1]].pages[pl[2]].path = path }

\* the documents whose page list holds the page of path
DocsOf(path) == { pl[1] : pl \in PlacesOf(path) }

\* the key the spec's scenario names
Key_doc_12_a == <<"d","o","c","-","1","2","-","a">>

\* the key and the filename of the spec's scenario of an unnumbered page
Key_scan_042 == <<"s","c","a","n","-","0","4","2">>

scan_042 == <<"s","c","a","n","_","0","4","2">>

\* the raw document numbers that the pages of doc carry
RawDocNumSet(doc) ==
    { RawDocNum(doc.pages[k]) :
        k \in { k \in DOMAIN doc.pages : Truthy(RawDocNum(doc.pages[k])) } }

\* the names the entity lists and the mappings of the inputs use
EntityNames == {"", "A", "B", "C", "J. Epstein", "Jeffrey Epstein"}

\* dedupe.json was read and holds an entry for name under key
HasEntry(key, name) ==
    /\ dedupeFile.state = "ok"
    /\ key \in DOMAIN dedupeFile.content
    /\ name \in DOMAIN dedupeFile.content[key]

\* a key of the form YYYY-00-00
IsYearKey(a) ==
    /\ Len(a) = 10
    /\ \A i \in 1..4 : a[i] \in Range(DigitChars)
    /\ SubSeq(a, 5, 10) = <<"-","0","0","-","0","0">>

\* the number two digits stand for
TwoDigitValue(dd) ==
    10 * (IndexOf(DigitChars, dd[1]) - 1) + (IndexOf(DigitChars, dd[2]) - 1)

\* two digits without the leading 0
Unpadded(dd) == IF dd[1] = "0" THEN <<dd[2]>> ELSE dd

\* a key YYYY-MM-DD whose MM is one of the twelve months
IsFullDateKey(a) ==
    /\ IsIsoDate(a)
    /\ TwoDigitValue(SubSeq(a, 6, 7)) \in 1..12

\* the buckets of the date index and their keys
DateBuckets == indices[1]["dates"]

DateKey(b) == DateBuckets[b].normalizedDate

\* the key is made of digits and hyphens, as every YYYY-MM-DD key is
IsDateShaped(key) == \A i \in DOMAIN key : key[i] \in Range(DigitChars) \cup {"-"}

\* the position of the date bucket with the key, 0 when there is none
DateBucketOf(key) ==
    IF \E b \in DOMAIN DateBuckets : DateKey(b) = key
    THEN CHOOSE b \in DOMAIN DateBuckets : DateKey(b) = key
    ELSE 0

\* the raw date strings that the pages of doc list
RawDates(doc) ==
    UNION { Range(PageEntities(doc.pages[k], "dates")) : k \in DOMAIN doc.pages }

\* the indices whose buckets are ordered by count
CountedIndices == Categories \cup {"documentTypes"}

\* the listing with its files loaded in the order f
Reordered(f) == [i \in DOMAIN files |-> files[f[i]]]

\* the paths of the pages of doc
PagePlaces(doc) == { doc.pages[k].path : k \in DOMAIN doc.pages }

\* the document other, assembled from the listing loaded in another order,
\* has the pages, the raw document numbers and the entities of doc
SameGrouping(doc, other) ==
    /\ other.unique_id = doc.unique_id
    /\ PagePlaces(other) = PagePlaces(doc)
    /\ other.page_count = doc.page_count
    /\ Range(other.raw_document_numbers) = Range(doc.raw_document_numbers)
    /\ \A key \in DOMAIN doc.entities :
          Range(other.entities[key]) = Range(doc.entities[key])

\* the buckets of the document type index
TypeBuckets == indices[1]["documentTypes"]

\* the raw document type of the first page of doc
FirstPageType(doc) == RawDocType(doc.pages[1])

\* the type of the first page after the type mapping, without regard to
\* letter case and the white space around it
MappedTypeFolded(doc) ==
    trim(toLowerCase(CanonicalType(trim(FirstPageType(doc)))))

\* documents d and e are in one bucket of the document type index
InOneTypeBucket(d, e) ==
    \E b \in DOMAIN TypeBuckets : {d, e} \subseteq Range(TypeBuckets[b].docs)

\* the page number of the page is numeric: parseInt gives a number
HasNumber(page) == parseInt(RawPageNumber(page)) # <<>>

\* no value is twice in seq
NoRepeat(seq) == \A a, b \in DOMAIN seq : a # b => seq[a] # seq[b]

\* the raw entities of a category that the pages of doc list
RawEntitySet(doc, key) ==
    UNION { Range(PageEntities(doc.pages[k], key)) : k \in DOMAIN doc.pages }

\* the orders in which n files can be loaded
LoadOrders(n) ==
    { f \in [1..n -> 1..n] : \A a, b \in 1..n : a # b => f[a] # f[b] }

\* the buckets of one index
Buckets(key) == indices[1][key]

\* doc has a stored entity that the index files under name
References(doc, key, name) ==
    \E j \in DOMAIN doc.entities[key] : applyDedupe(key, doc.entities[key][j]) = name


-----------------------------------------------------------------------------
C2_SameKeySameDocument ==
    Assembled =>
        \A i, j \in LoadedFiles :
            LET a == RawDocNum(files[i])
                b == RawDocNum(files[j])
            IN  (Truthy(a) /\ Truthy(b) /\ normalizeDocNum(a) = normalizeDocNum(b))
                => /\ DocsOf(files[i].path) = DocsOf(files[j].path)
                   /\ DocsOf(files[i].path) # {}

\* two pages with different raw spellings of one key, in one document
C2_Witness ==
    /\ Assembled
    /\ \E i, j \in LoadedFiles :
          /\ Truthy(RawDocNum(files[i]))
          /\ Truthy(RawDocNum(files[j]))
          /\ RawDocNum(files[i]) # RawDocNum(files[j])
          /\ normalizeDocNum(RawDocNum(files[i])) = normalizeDocNum(RawDocNum(files[j]))
          /\ DocsOf(files[i].path) = DocsOf(files[j].path)

(* C3.  normalizeDocNum is idempotent: normalizing the result of a         *)
(* normalization gives that result again, for every input, the inputs made *)
(* only of punctuation, the empty string and the absent value included.    *)
C3_NormalizeIdempotent ==
    nTwice # <<>> => nTwice[1] = nOutput[1]


(* C4.  As amended: a page with document_number "DOC-12 A" and a page with *)
(* "doc 12 a" both normalize to the key doc-12-a and are merged into one   *)
(* document whose raw_document_numbers holds both strings and whose        *)
(* document_number is the normalized key; "doc12a" normalizes to doc12a,   *)
(* so a page bearing it is in another document than the "DOC-12 A" page.   *)
C4_VariantsMerge ==
    Assembled =>
        \A i, j \in LoadedFiles :
            /\ (RawDocNum(files[i]) = DOC_12_A /\ RawDocNum(files[j]) = doc_12_a)
               => /\ normalizeDocNum(DOC_12_A) = Key_doc_12_a
                  /\ normalizeDocNum(doc_12_a) = Key_doc_12_a
                  /\ \E d \in DOMAIN Docs :
                        /\ DocsOf(files[i].path) = {d}
                        /\ DocsOf(files[j].path) = {d}
                        /\ Docs[d].unique_id = Key_doc_12_a
                        /\ {DOC_12_A, doc_12_a} \subseteq Range(Docs[d].raw_document_numbers)
                        /\ Docs[d].document_number = Key_doc_12_a
            /\ (RawDocNum(files[i]) = DOC_12_A /\ RawDocNum(files[j]) = doc12a)
               => /\ normalizeDocNum(doc12a) = doc12a
                  /\ DocsOf(files[i].path) \cap DocsOf(files[j].path) = {}

\* the three spellings loaded and assembled
C4_Witness ==
    /\ Assembled
    /\ {DOC_12_A, doc_12_a, doc12a} \subseteq { RawDocNum(files[i]) : i \in LoadedFiles }

\* the claim as written: "DOC-12 A" and "doc12a" share the key doc-12-a and
\* one document
C4_Original ==
    Assembled =>
        \A i, j \in LoadedFiles :
            (RawDocNum(files[i]) = DOC_12_A /\ RawDocNum(files[j]) = doc12a)
            => /\ normalizeDocNum(DOC_12_A) = Key_doc_12_a
               /\ normalizeDocNum(doc12a) = Key_doc_12_a
               /\ \E d \in DOMAIN Docs :
                     /\ DocsOf(files[i].path) = {d}
                     /\ DocsOf(files[j].path) = {d}
                     /\ {DOC_12_A, doc12a} \subseteq Range(Docs[d].raw_document_numbers)
                     /\ Docs[d].document_number = Key_doc_12_a

(* C5.  In every assembled document the pages are in non-decreasing order  *)
(* of parseInt(page_number) || 0, and two pages with the same sort key are *)
(* in the order in which they were loaded.                                 *)
C5_PagesSortedStable ==
    Assembled =>
        \A d \in DOMAIN Docs :
            \A k, l \in DOMAIN Docs[d].pages :
                k < l =>
                    /\ PageSortKey(Docs[d].pages[k]) <= PageSortKey(Docs[d].pages[l])
                    /\ PageSortKey(Docs[d].pages[k]) = PageSortKey(Docs[d].pages[l])
                       => Docs[d].pages[k].path < Docs[d].pages[l].path

\* a document of three pages, two of them with one sort key and different
\* page numbers, that the sort had to reorder
C5_Witness ==
    /\ Assembled
    /\ \E d \in DOMAIN Docs :
          /\ Docs[d].page_count = 3
          /\ \E k, l \in DOMAIN Docs[d].pages :
                /\ k < l
                /\ PageSortKey(Docs[d].pages[k]) = PageSortKey(Docs[d].pages[l])
                /\ RawPageNumber(Docs[d].pages[k]) # RawPageNumber(Docs[d].pages[l])
          /\ \E k, l \in DOMAIN Docs[d].pages :
                k < l /\ Docs[d].pages[k].path > Docs[d].pages[l].path

(* C6.  As amended: in every assembled document a page whose page number   *)
(* is missing or not numeric has sort key 0 and is placed before every     *)
(* page of the document whose page number is a number greater than 0.      *)
C6_UnnumberedBeforePositive ==
    Assembled =>
        \A d \in DOMAIN Docs :
            \A k, l \in DOMAIN Docs[d].pages :
                (/\ ~HasNumber(Docs[d].pages[k])
                 /\ HasNumber(Docs[d].pages[l])
                 /\ parseInt(RawPageNumber(Docs[d].pages[l]))[1] > 0)
                => /\ PageSortKey(Docs[d].pages[k]) = 0
                   /\ k < l

\* a page without page number and one with a non-numeric one, both loaded
\* after a page with a positive number
C6_Witness ==
    /\ Assembled
    /\ \E d \in DOMAIN Docs :
          \E k, m, l \in DOMAIN Docs[d].pages :
              /\ RawPageNumber(Docs[d].pages[k]) = NULL
              /\ RawPageNumber(Docs[d].pages[m]) # NULL
              /\ ~HasNumber(Docs[d].pages[m])
              /\ HasNumber(Docs[d].pages[l])
              /\ parseInt(RawPageNumber(Docs[d].pages[l]))[1] > 0
              /\ Docs[d].pages[l].path < Docs[d].pages[k].path
              /\ Docs[d].pages[l].path < Docs[d].pages[m].path

\* the claim as written: before every page with a numeric page number
C6_Original ==
    Assembled =>
        \A d \in DOMAIN Docs :
            \A k, l \in DOMAIN Docs[d].pages :
                (~HasNumber(Docs[d].pages[k]) /\ HasNumber(Docs[d].pages[l]))
                => k < l


(* C7.  For every document and each of people, organizations and           *)
(* locations, the stored entity list has no value twice and is, as a set,  *)
(* the image under applyDedupe of the union of its pages' raw lists; the   *)
(* set is the same for every order in which the files are loaded; and the  *)
(* mapping {"J. Epstein": "Jeffrey Epstein"} over the raw people           *)
(* "J. Epstein", "Jeffrey Epstein" gives the one entry "Jeffrey Epstein".  *)
(* The corpus is assembled by the first call and never changes afterwards  *)
(* (C10), so the load orders are compared in the state that call leaves.   *)
C7_EntityListIsDedupedUnion ==
    Assembled =>
        /\ \A d \in DOMAIN Docs : \A key \in Categories :
              /\ NoRepeat(Docs[d].entities[key])
              /\ Range(Docs[d].entities[key])
                    = { applyDedupe(key, r) : r \in RawEntitySet(Docs[d], key) }
              /\ (/\ "people" \in DOMAIN dedupeMappings
                  /\ dedupeMappings["people"] = ("J. Epstein" :> "Jeffrey Epstein")
                  /\ RawEntitySet(Docs[d], "people") = {"J. Epstein", "Jeffrey Epstein"})
                 => Docs[d].entities["people"] = <<"Jeffrey Epstein">>
        /\ calls = 1 =>
           \A f \in LoadOrders(Len(files)) :
              LET other == AssembleDocuments([i \in DOMAIN files |-> files[f[i]]]) IN
              \A d \in DOMAIN Docs :
                  \E e \in DOMAIN other :
                      /\ other[e].unique_id = Docs[d].unique_id
                      /\ \A key \in Categories :
                            Range(other[e].entities[key]) = Range(Docs[d].entities[key])

\* a document of two pages in which two raw spellings collapse to one entry
C7_Witness ==
    /\ Assembled
    /\ \E d \in DOMAIN Docs :
          /\ Docs[d].page_count >= 2
          /\ RawEntitySet(Docs[d], "people") = {"J. Epstein", "Jeffrey Epstein"}
          /\ Docs[d].entities["people"] = <<"Jeffrey Epstein">>
    /\ \E d \in DOMAIN Docs : \E key \in Categories :
          Cardinality(RawEntitySet(Docs[d], key)) >= 2

(* C8.  In the people, organizations and locations indices every bucket's  *)
(* count is the length of its docs list, the docs list holds no document   *)
(* (by unique_id) twice, and the count is the number of distinct documents *)
(* that have an entity of that canonical name.                             *)
C8_BucketCountIsDistinctDocuments ==
    Indexed =>
        \A key \in Categories : \A b \in DOMAIN Buckets(key) :
            LET bucket == Buckets(key)[b] IN
            /\ bucket.count = Len(bucket.docs)
            /\ NoRepeat([x \in DOMAIN bucket.docs |-> Docs[bucket.docs[x]].unique_id])
            /\ bucket.count =
                  Cardinality({ Docs[d].unique_id :
                                  d \in { d \in DOMAIN Docs :
                                            References(Docs[d], key, bucket.name) } })

\* a bucket of two documents, one of which mentions the bucket's name under
\* two stored entries
C8_Witness ==
    /\ Indexed
    /\ \E key \in Categories : \E b \in DOMAIN Buckets(key) :
          /\ Buckets(key)[b].count = 2
          /\ \E x \in DOMAIN Buckets(key)[b].docs :
                LET list == Docs[Buckets(key)[b].docs[x]].entities[key] IN
                \E j, k \in DOMAIN list :
                    /\ j # k
                    /\ applyDedupe(key, list[j]) = Buckets(key)[b].name
                    /\ applyDedupe(key, list[k]) = Buckets(key)[b].name

(* C9.  For every document D and each of people, organizations and         *)
(* locations, under any mapping, the names of the index buckets whose docs *)
(* list holds D are exactly the entries of D's own stored entity list.     *)
C9_IndexMatchesStoredEntities ==
    Indexed =>
        \A d \in DOMAIN Docs : \A key \in Categories :
            { Buckets(key)[b].name :
                b \in { b \in DOMAIN Buckets(key) : d \in Range(Buckets(key)[b].docs) } }
            = Range(Docs[d].entities[key])

(* C10.  Over any sequence of calls of the documents and indices           *)
(* callbacks the results directory is scanned at most once, every call     *)
(* returns the one array the cache holds, and once the cache holds an      *)
(* array no call replaces or changes it.                                   *)
C10_AssembledOnce ==
    /\ [](/\ scans <= 1
          /\ returned \subseteq {cacheGen}
          /\ calls > 0 => (Assembled /\ scans = 1 /\ returned = {cacheGen}))
    /\ [][Assembled => UNCHANGED <<cachedDocuments, cacheGen, scans>>]_vars

\* both kinds of result handed out over several calls after one scan
C10_Witness ==
    /\ calls = MaxCalls
    /\ Indexed
    /\ scans = 1
    /\ Len(Docs) >= 2

(* C11.  In the date index, of any two entries whose normalizedDate is    *)
(* made of digits and hyphens only (every YYYY-MM-DD key is) the one with  *)
(* the greater key under lexicographic comparison comes first, so that     *)
(* "2024-05-01" is before "2023-11-02"; over all entries the index is in   *)
(* descending order of localeCompare, whatever the runtime's collation.    *)
C11_DateIndexDescending ==
    Indexed =>
        \A i, j \in DOMAIN DateBuckets :
            i < j =>
                /\ localeCompare(DateKey(i), DateKey(j)) > 0
                /\ IsDateShaped(DateKey(i)) /\ IsDateShaped(DateKey(j))
                      => CompareCodeUnits(DateKey(i), DateKey(j)) > 0
                /\ DateKey(j) = ISO_2024_05_01 => DateKey(i) # ISO_2023_11_02

\* an index, collated by the runtime's locale, that holds 2024-05-01
\* before 2023-11-02, both pushed in the opposite order, and two keys that
\* are no dates
C11_Witness ==
    /\ Indexed
    /\ collation = "icu"
    /\ DateBucketOf(ISO_2024_05_01) # 0
    /\ DateBucketOf(ISO_2024_05_01) < DateBucketOf(ISO_2023_11_02)
    /\ ISO_2023_11_02 \in RawDates(Docs[1])
    /\ ISO_2024_05_01 \notin RawDates(Docs[1])
    /\ DateBucketOf(Circa_1990) # 0
    /\ DateBucketOf(Spring_2005) # 0

\* C11 as the spec words it: any two entries, lexicographic comparison
C11_Original ==
    Indexed =>
        \A i, j \in DOMAIN DateBuckets :
            i < j => CompareCodeUnits(DateKey(i), DateKey(j)) > 0

(* C12.  In the people, organizations, locations and documentTypes         *)
(* indices no bucket comes after a bucket with a strictly smaller count.   *)
C12_IndicesByCount ==
    Indexed =>
        \A key \in CountedIndices :
            \A i, j \in DOMAIN Buckets(key) :
                i < j => Buckets(key)[i].count >= Buckets(key)[j].count

\* the people and the documentTypes index each start with a bucket of two
\* documents that the first document of the corpus is not in, followed by
\* a bucket of one document
C12_Witness ==
    /\ Indexed
    /\ \A key \in {"people", "documentTypes"} :
          /\ Len(Buckets(key)) = 2
          /\ Buckets(key)[1].count = 2
          /\ Buckets(key)[2].count = 1
          /\ 1 \notin Range(Buckets(key)[1].docs)
          /\ 1 \in Range(Buckets(key)[2].docs)

(* C13.  applyDedupe(category, rawName) returns the value dedupe.json      *)
(* holds for rawName under the category whenever that value is a non-empty *)
(* string, and rawName unchanged otherwise (no entry, an entry that is the *)
(* empty string, or a category the file does not list).  When dedupe.json  *)
(* is missing or does not parse, applyDedupe is the identity for people,   *)
(* organizations and locations, every call still yields the documents,     *)
(* whose entity lists are then the raw unions, and the indices.            *)
C13_DedupeMappedOrIdentity ==
    /\ \A key \in Categories : \A name \in EntityNames :
          applyDedupe(key, name) =
              IF HasEntry(key, name) /\ dedupeFile.content[key][name] # ""
              THEN dedupeFile.content[key][name]
              ELSE name
    /\ dedupeFile.state # "ok" =>
          /\ calls > 0 => Assembled
          /\ Assembled =>
                \A d \in DOMAIN Docs : \A key \in Categories :
                    Docs[d].entities[key] = AllEntities(Docs[d].pages, key)
          /\ Indexed =>
                \A key \in Categories :
                    { Buckets(key)[b].name : b \in DOMAIN Buckets(key) }
                    = UNION { RawEntitySet(Docs[d], key) : d \in DOMAIN Docs }

\* under a mapping with an entry and an empty entry, a document stores the
\* mapped organization for "A" and keeps the location "B" whose entry is ""
C13_Witness ==
    /\ Indexed
    /\ HasEntry("organizations", "A")
    /\ HasEntry("locations", "B")
    /\ dedupeFile.content["locations"]["B"] = ""
    /\ \E d \in DOMAIN Docs :
          /\ "A" \in RawEntitySet(Docs[d], "organizations")
          /\ "A" \notin Range(Docs[d].entities["organizations"])
          /\ dedupeFile.content["organizations"]["A"]
                \in Range(Docs[d].entities["organizations"])
    /\ \E d \in DOMAIN Docs :
          /\ "B" \in RawEntitySet(Docs[d], "locations")
          /\ "B" \in Range(Docs[d].entities["locations"])

\* C13 as the spec words it: the mapped value whenever there is an entry
C13_Original ==
    \A key \in Categories : \A name \in EntityNames \ {""} :
        HasEntry(key, name) =>
            applyDedupe(key, name) = dedupeFile.content[key][name]

C15_UniqueIdIsSlug ==
    Assembled =>
        \A d \in DOMAIN Docs :
            LET id == Docs[d].unique_id IN
            /\ id # <<>>
            /\ \A k \in DOMAIN id : IsKeyChar(id[k])
            /\ \A k \in 1..(Len(id) - 1) : ~(id[k] = "-" /\ id[k + 1] = "-")
            /\ id[1] # "-"
            /\ id[Len(id)] # "-"

(* C16.  The date index is keyed by normalizeDate of the raw date         *)
(* strings: every raw date of a document that has a key is in the bucket   *)
(* whose normalizedDate is that key, and every bucket holds only documents *)
(* with a raw date of that key, so that two raw dates are in the same      *)
(* bucket exactly when normalizeDate gives them the same key.              *)
C16_DateBucketsByNormalizedKey ==
    Indexed =>
        /\ \A d \in DOMAIN Docs : \A r \in RawDates(Docs[d]) :
              Truthy(normalizeDate(r)) =>
                  /\ DateBucketOf(normalizeDate(r)) # 0
                  /\ d \in Range(DateBuckets[DateBucketOf(normalizeDate(r))].docs)
        /\ \A b \in DOMAIN DateBuckets : \A x \in DOMAIN DateBuckets[b].docs :
              \E r \in RawDates(Docs[DateBuckets[b].docs[x]]) :
                  normalizeDate(r) = DateKey(b)
        /\ \A a, b \in DOMAIN DateBuckets : a # b => DateKey(a) # DateKey(b)

(* C17.  formatDate gives the year for a key of the form YYYY-00-00,       *)
(* "Month D, YYYY" with the name of the month and the day without leading  *)
(* zero for a key YYYY-MM-DD of one of the twelve months, "Unknown Date"   *)
(* for null and the empty string, and its argument unchanged for every     *)
(* other input; "2005-00-00" gives "2005" and "2005-02-15" gives           *)
(* "February 15, 2005".                                                    *)
C17_FormatDate ==
    dShown # <<>> =>
        LET a == dShown[1].arg IN
        /\ dShown[1].out =
              IF ~Truthy(a) THEN UnknownDate
              ELSE IF IsYearKey(a) THEN SubSeq(a, 1, 4)
              ELSE IF IsFullDateKey(a)
                   THEN MonthDisplayName(TwoDigitValue(SubSeq(a, 6, 7)))
                        \o <<" ">> \o Unpadded(SubSeq(a, 9, 10))
                        \o <<",", " ">> \o SubSeq(a, 1, 4)
              ELSE a
        /\ a = Key_2005_00_00 => dShown[1].out = <<"2","0","0","5">>
        /\ a = Key_2005_02_15 => dShown[1].out = February_15_2005

C19_RecognizedFormats ==
    dKey # <<>> =>
        /\ dInput.form = "iso" => dKey[1] = dInput.core
        /\ dInput.form = "year" =>
              dKey[1] = dInput.year \o <<"-","0","0","-","0","0">>
        /\ dInput.form \in {"mdy", "dmy", "ymd", "us"} =>
              dKey[1] = dInput.year \o <<"-">> \o TwoDigits(dInput.month)
                        \o <<"-">> \o dInput.day2
        /\ dInput.text = Feb_3_2010 => dKey[1] = Key_2010_02_03
        /\ dInput.text = US_03_04_2005 => dKey[1] = Key_2005_03_04

\* "Feb 3, 2010" normalized to "2010-02-03" and shown as "February 3, 2010"
C19_Witness ==
    /\ dInput.text = Feb_3_2010
    /\ dInput.form = "mdy"
    /\ dKey = <<Key_2010_02_03>>
    /\ dShown # <<>>
    /\ dShown[1].out = February_3_2010

(* C20.  For every document, raw_document_numbers lists, each once, the    *)
(* non-empty raw document numbers of its pages; document_number is that    *)
(* raw string when there is exactly one and the unique_id otherwise, the   *)
(* case where no page carries a number included.                           *)
C20_DisplayNumber ==
    Assembled =>
        \A d \in DOMAIN Docs :
            LET doc  == Docs[d]
                raws == RawDocNumSet(doc)
            IN  /\ Range(doc.raw_document_numbers) = raws
                /\ NoRepeat(doc.raw_document_numbers)
                /\ doc.document_number =
                      IF Cardinality(raws) = 1 THEN CHOOSE r \in raws : TRUE
                      ELSE doc.unique_id

\* a document of two pages with two raw numbers, shown by its key, beside
\* a document whose only page has no number
C20_Witness ==
    /\ Assembled
    /\ \E d \in DOMAIN Docs :
          /\ Cardinality(RawDocNumSet(Docs[d])) = 2
          /\ Docs[d].document_number = Key_doc_12_a
    /\ \E d \in DOMAIN Docs :
          /\ RawDocNumSet(Docs[d]) = {}
          /\ Docs[d].raw_document_numbers = <<>>
          /\ Docs[d].document_number = Docs[d].unique_id

(* C21.  The metadata of every document is that of its first page in     *)
(* sorted page order: document_number and page_number are the first        *)
(* page's; document_type is formatDocType of the first page's type when it *)
(* has one and null otherwise; date is formatDate(normalizeDate(d)) of the *)
(* first page's date d when it has one and d as found otherwise.           *)
C21_MetadataOfFirstPage ==
    Assembled =>
        \A d \in DOMAIN Docs :
            LET first == Docs[d].pages[1]
                md    == Docs[d].document_metadata
            IN  /\ \A k \in DOMAIN Docs[d].pages :
                      PageSortKey(first) <= PageSortKey(Docs[d].pages[k])
                /\ md.document_number = RawDocNum(first)
                /\ md.page_number = RawPageNumber(first)
                /\ md.document_type =
                      IF Truthy(RawDocType(first))
                      THEN formatDocType(RawDocType(first)) ELSE NULL
                /\ md.date =
                      IF Truthy(RawDate(first))
                      THEN formatDate(normalizeDate(RawDate(first)))
                      ELSE RawDate(first)
                /\ RawDate(first) = Feb_3_2010 => md.date = February_3_2010
                /\ RawDate(first) = Blank => md.date = UnknownDate
                /\ (RawDocType(first) = Memo /\ typeDedupeMap = NoTypeMapping)
                      => md.document_type = Memo
                /\ (RawDocType(first) = Memo /\ Memo \in DOMAIN typeDedupeMap)
                      => md.document_type = Memorandum

\* under a type mapping, a document whose first page in page order was
\* loaded second and has no type, beside one whose type and date are
\* stored in display form
C21_Witness ==
    /\ Assembled
    /\ Memo \in DOMAIN typeDedupeMap
    /\ \E d \in DOMAIN Docs :
          /\ Docs[d].page_count = 2
          /\ Docs[d].pages[1].path > Docs[d].pages[2].path
          /\ Docs[d].document_metadata.document_type = NULL
          /\ Docs[d].document_metadata.date = Year_2005
    /\ \E d \in DOMAIN Docs :
          /\ RawDocType(Docs[d].pages[1]) = memo
          /\ Docs[d].document_metadata.document_type = Memorandum

(* C22.  Two documents whose first pages have a document type are in one   *)
(* bucket of the documentTypes index exactly when those types, after the   *)
(* type mapping, are equal without regard to letter case and surrounding   *)
(* white space, under any type mapping.                                    *)
C22_TypeBucketsByMappedType ==
    Indexed =>
        \A d, e \in DOMAIN Docs :
            ( /\ Truthy(FirstPageType(Docs[d])) /\ Truthy(MappedTypeFolded(Docs[d]))
              /\ Truthy(FirstPageType(Docs[e])) /\ Truthy(MappedTypeFolded(Docs[e])) )
            => ( InOneTypeBucket(d, e)
                 <=> MappedTypeFolded(Docs[d]) = MappedTypeFolded(Docs[e]) )

(* C23.  The grouping does not depend on the order in which the pages    *)
(* are loaded: for every permutation of the listing the assembled corpus   *)
(* has the same document keys, and the document of each key has the same   *)
(* pages, the same set of raw document numbers and the same entity sets;   *)
(* its pages are in the same order of page sort key.                       *)
C23_GroupingIgnoresLoadOrder ==
    (Assembled /\ calls = 1) =>
        \A f \in LoadOrders(Len(files)) :
            LET other == AssembleDocuments(Reordered(f)) IN
            /\ Len(other) = Len(Docs)
            /\ \A d \in DOMAIN Docs : \E e \in DOMAIN other :
                  /\ SameGrouping(Docs[d], other[e])
                  /\ \A k \in DOMAIN Docs[d].pages :
                        PageSortKey(other[e].pages[k]) = PageSortKey(Docs[d].pages[k])
            /\ \A e \in DOMAIN other : \E d \in DOMAIN Docs :
                  other[e].unique_id = Docs[d].unique_id

\* three pages in two documents, one of two pages with different sort keys
\* and entities on both, loaded in an order that is not the page order
C23_Witness ==
    /\ Assembled /\ calls = 1
    /\ Len(files) = 3
    /\ Len(Docs) = 2
    /\ \E d \in DOMAIN Docs :
          /\ Docs[d].page_count = 2
          /\ Docs[d].pages[1].path > Docs[d].pages[2].path
          /\ PageSortKey(Docs[d].pages[1]) < PageSortKey(Docs[d].pages[2])
          /\ Cardinality(Range(Docs[d].entities["people"])) >= 2

(* C24.  An unparseable page file is reported and skipped, and the scan  *)
(* goes on: for every directory tree the scan loads one page from each     *)
(* parseable file whose name ends in .json, loads nothing else, and        *)
(* reports each unparseable such file once.                                *)
C24_ParseableFilesLoadedOnce ==
    dirScan # <<>> =>
        LET pages  == dirScan[1].pages
            errors == dirScan[1].errors
        IN  /\ Len(pages) = Cardinality(ParseableFiles)
            /\ \A place \in ParseableFiles :
                  Cardinality({ k \in DOMAIN pages : LoadedFrom(pages[k], place) }) = 1
            /\ \A k \in DOMAIN pages :
                  \E place \in ParseableFiles : LoadedFrom(pages[k], place)
            /\ Len(errors) = Cardinality(UnparseableFiles)
            /\ \A place \in UnparseableFiles :
                  Cardinality({ k \in DOMAIN errors :
                      errors[k] = ResultsPath \o <<"/">> \o PathOf(resultsDir, place) }) = 1

\* an unparseable file listed first, then a directory with a parseable file
C24_Witness ==
    /\ dirScan # <<>>
    /\ Len(resultsDir) = 2
    /\ resultsDir[1] = FileEntry(a_json, Unparseable)
    /\ resultsDir[2].isDirectory
    /\ Len(dirScan[1].errors) = 1
    /\ Len(dirScan[1].pages) = 1
    /\ dirScan[1].pages[1].folder = resultsDir[2].name

(* C25.  No two documents of the corpus have the same unique_id, and every *)
(* document has at least one page and a page_count equal to the length of  *)
(* its pages list.                                                         *)
C25_DistinctKeysNonEmptyDocuments ==
    Assembled =>
        /\ \A d, e \in DOMAIN Docs :
              d # e => Docs[d].unique_id # Docs[e].unique_id
        /\ \A d \in DOMAIN Docs :
              /\ Len(Docs[d].pages) >= 1
              /\ Docs[d].page_count = Len(Docs[d].pages)

\* two documents, one of them of two pages whose raw numbers differ
C25_Witness ==
    /\ Assembled
    /\ Len(Docs) = 2
    /\ \E d \in DOMAIN Docs :
          /\ Docs[d].page_count = 2
          /\ Cardinality(RawDocNumSet(Docs[d])) = 2

C27_TypeBucketNameIsStoredType ==
    Indexed =>
        \A b \in DOMAIN TypeBuckets : \A x \in DOMAIN TypeBuckets[b].docs :
            TypeBuckets[b].name
                = Docs[TypeBuckets[b].docs[x]].document_metadata.document_type

(* C28.  For every bucket of the date index and every document in its docs *)
(* list, the name of the bucket is one of the dates stored in the          *)
(* document's entities.dates.                                              *)
C28_DateBucketNameIsStoredDate ==
    Indexed =>
        \A b \in DOMAIN DateBuckets : \A x \in DOMAIN DateBuckets[b].docs :
            DateBuckets[b].name
                \in Range(Docs[DateBuckets[b].docs[x]].entities["dates"])


====
